---- MODULE Spec2Model ----
(***************************************************************************)
(* The CodeInput component of src/components/CodeInput.tsx as a state      *)
(* machine: the React state {codeArr, currentIndex}, the props that the    *)
(* handlers read, and the host toolkit's input focus.                      *)
(*                                                                         *)
(* A handler runs against the state of the last render (its closure) and   *)
(* queues functional updates; React applies the queued updates in order    *)
(* before the next event is delivered.  The host keeps the focused cell:   *)
(* focus() on a cell that is not focused moves the focus there and raises  *)
(* that cell's onFocus event, focus() on the focused cell does nothing,    *)
(* blur() on the focused cell removes the focus, blur() on another cell    *)
(* does nothing.  The events the host raises for a handler's requests are  *)
(* delivered before the next user event.                                   *)
(*                                                                         *)
(* A string is modelled as the sequence of its characters, a character as  *)
(* a one-character string and the empty cell as "".                        *)
(***************************************************************************)
EXTENDS Integers, Sequences, FiniteSets, TLC

VARIABLES
    codeLength,       \* prop codeLength
    compareWithCode,  \* prop compareWithCode, <<>> when none is configured
    ignoreCase,       \* prop ignoreCase
    inputPosition,    \* prop inputPosition
    keys,             \* the characters the keyboard can deliver
    state,            \* React state: [codeArr, currentIndex]
    focused,          \* host: the cell that holds the input focus, or NoFocus
    pending,          \* host: onFocus events raised and not yet delivered
    console,          \* whether the validation effect ran, and what it logged
    last,             \* observer: the last user event, the callbacks and the
                      \* host requests its handler issued, the state before it
    recording,        \* observer: whether trace is kept
    trace             \* observer: the user events so far with their callbacks

vars == <<codeLength, compareWithCode, ignoreCase, inputPosition, keys, state,
          focused, pending, console, last, recording, trace>>

props == <<codeLength, compareWithCode, ignoreCase, inputPosition, keys,
           recording>>

-----------------------------------------------------------------------------
(* Bounds *)

MaxLen == 3

MaxEvents == 5

Letters == {"a", "A", "b"}

Digits == <<"1", "2", "3", "4">>

-----------------------------------------------------------------------------
(* Pure helpers *)

NoFocus == -1

Cells == 0 .. (codeLength - 1)

\* new Array(codeLength).fill("")
EmptyCodeArr == [i \in Cells |-> ""]

RECURSIVE joinFrom(_, _)
joinFrom(arr, i) ==
    IF i >= codeLength THEN <<>>
    ELSE (IF arr[i] = "" THEN <<>> ELSE <<arr[i]>>) \o joinFrom(arr, i + 1)

\* arr.join("")
join(arr) == joinFrom(arr, 0)

\* _.findIndex(arr, c => !c)
findIndex(arr) ==
    IF \E i \in Cells : arr[i] = ""
    THEN CHOOSE i \in Cells : arr[i] = "" /\ \A j \in Cells : arr[j] = "" => i <= j
    ELSE -1

clearOnly(arr, index) == [i \in Cells |-> IF i = index THEN "" ELSE arr[i]]

\* for (const i in newCodeArr) if (+i >= index) newCodeArr[i] = ""
clearFrom(arr, index) == [i \in Cells |-> IF i >= index THEN "" ELSE arr[i]]

\* the lower case of one character: U+0130, the capital I with a dot above,
\* becomes the two characters i and U+0307, the combining dot
lowerChar(c) ==
    IF c = "A" THEN <<"a">>
    ELSE IF c = "B" THEN <<"b">>
    ELSE IF c = "U+0130" THEN <<"i", "U+0307">>
    ELSE <<c>>

RECURSIVE toLowerCase(_)
\* String.prototype.toLowerCase
toLowerCase(s) ==
    IF s = <<>> THEN <<>> ELSE lowerChar(Head(s)) \o toLowerCase(Tail(s))

_isMatchingCodeExact(code, compareCode, isIgnoreCase) == code = compareCode

_isMatchingCodeInverted(code, compareCode, isIgnoreCase) ==
    IF isIgnoreCase
    THEN toLowerCase(code) # toLowerCase(compareCode)
    ELSE code # compareCode

_isMatchingCode(code, compareCode, isIgnoreCase) ==
    IF isIgnoreCase
    THEN toLowerCase(code) = toLowerCase(compareCode)
    ELSE code = compareCode

-----------------------------------------------------------------------------
(* Host requests.  h is the host's record [focused, pending]. *)

FocusReq(index) == [kind |-> "focus", index |-> index]

BlurReq(index) == [kind |-> "blur", index |-> index]

\* codeInputRefs.current?.[index]?.focus()
_setFocus(h, index) ==
    IF index \in Cells /\ h.focused # index
    THEN [focused |-> index, pending |-> Append(h.pending, index)]
    ELSE h

\* codeInputRefs.current?.[index]?.blur()
_blur(h, index) ==
    IF index \in Cells /\ h.focused = index
    THEN [h EXCEPT !.focused = NoFocus]
    ELSE h

RECURSIVE Requests(_, _)
Requests(h, reqs) ==
    IF reqs = <<>> THEN h
    ELSE Requests(IF Head(reqs).kind = "focus"
                  THEN _setFocus(h, Head(reqs).index)
                  ELSE _blur(h, Head(reqs).index),
                  Tail(reqs))

Host == [focused |-> focused, pending |-> pending]

-----------------------------------------------------------------------------
(* Callbacks *)

CodeChange(code) == [cb |-> "onCodeChange", args |-> <<code>>]

Fulfill(code) == [cb |-> "onFulfill", args |-> <<code>>]

FulfillMatch(code, isMatching) == [cb |-> "onFulfill", args |-> <<code, isMatching>>]

-----------------------------------------------------------------------------
(* Prop validation *)

\* ["center", "left", "right", "full-width"]
InputPositions == {"center", "left", "right", "full-width"}

LengthError == "Invalid props: compareWith length is not equal to codeLength"

PositionError == "Invalid input position. Must be in: center, left, right, full"

validateAnyLength ==
    (IF Len(compareWithCode) # codeLength THEN <<LengthError>> ELSE <<>>)
        \o (IF inputPosition \notin InputPositions
            THEN <<PositionError>> ELSE <<>>)

\* what the effect passes to console.error, in order
validate ==
    (IF compareWithCode # <<>> /\ Len(compareWithCode) # codeLength
     THEN <<LengthError>> ELSE <<>>)
        \o (IF inputPosition \notin InputPositions
            THEN <<PositionError>> ELSE <<>>)

-----------------------------------------------------------------------------
(* Cell styles *)

cellBorderWidth == 1

activeColor == "#919191"

inactiveColor == "#E2E2E2"

space == 8

ClassNames ==
    {"clear", "border-box", "border-circle", "border-b", "border-b-t",
     "border-l-r"}

NoStyle == [f \in {} |-> 0]

\* INPUT_SPACE_DEFAULT[inputPosition], nothing for an unknown position
INPUT_SPACE_DEFAULT ==
    IF inputPosition = "left" THEN [marginRight |-> space]
    ELSE IF inputPosition = "center"
    THEN [marginRight |-> space \div 2, marginLeft |-> space \div 2]
    ELSE IF inputPosition = "right" THEN [marginLeft |-> space]
    ELSE IF inputPosition = "full-width"
    THEN [marginRight |-> 0, marginLeft |-> 0]
    ELSE NoStyle

_getClassStyleSwapped(type, active) ==
    LET classStyle == [color |-> activeColor] @@ INPUT_SPACE_DEFAULT
        borderColor == IF active THEN inactiveColor ELSE activeColor
    IN  IF type = "clear" \/ type \notin ClassNames
        THEN [borderWidth |-> 0] @@ classStyle
        ELSE [borderColor |-> borderColor] @@ classStyle

\* {...classStyle, ...} : the later keys win
_getClassStyle(type, active) ==
    LET classStyle == [color |-> activeColor] @@ INPUT_SPACE_DEFAULT
        borderColor == IF active THEN activeColor ELSE inactiveColor
    IN  IF type = "border-box"
        THEN [borderWidth |-> cellBorderWidth, borderColor |-> borderColor,
              borderRadius |-> 4] @@ classStyle
        ELSE IF type = "border-circle"
        THEN [borderWidth |-> cellBorderWidth, borderRadius |-> 50,
              borderColor |-> borderColor] @@ classStyle
        ELSE IF type = "border-b"
        THEN [borderBottomWidth |-> cellBorderWidth,
              borderColor |-> borderColor, borderRadius |-> 4] @@ classStyle
        ELSE IF type = "border-b-t"
        THEN [borderTopWidth |-> cellBorderWidth,
              borderBottomWidth |-> cellBorderWidth,
              borderColor |-> borderColor, borderRadius |-> 4] @@ classStyle
        ELSE IF type = "border-l-r"
        THEN [borderLeftWidth |-> cellBorderWidth,
              borderRightWidth |-> cellBorderWidth,
              borderColor |-> borderColor] @@ classStyle
        ELSE [borderWidth |-> 0] @@ classStyle

\* the style of each cell's View, for the given className
renderContent(className) ==
    [index \in Cells |-> _getClassStyle(className, state.currentIndex = index)]

-----------------------------------------------------------------------------
(* Handlers: each yields the state after its queued updates, the callbacks *)
(* it invoked and the host requests it issued, in order.                   *)

\* clear(): its updater applied to the state, and its focus request
clear ==
    [state |-> [codeArr |-> EmptyCodeArr, currentIndex |-> 0],
     calls |-> <<>>,
     reqs |-> <<FocusReq(0)>>]

_onFocusKeepIndex(index) ==
    LET newCodeArr == state.codeArr
        currentEmptyIndex == findIndex(newCodeArr)
    IN  IF currentEmptyIndex # -1 /\ currentEmptyIndex < index
        THEN [state |-> state, calls |-> <<>>,
              reqs |-> <<FocusReq(currentEmptyIndex)>>]
        ELSE [state |-> [codeArr |-> clearFrom(newCodeArr, index),
                         currentIndex |-> state.currentIndex],
              calls |-> <<>>, reqs |-> <<>>]

_onFocusStepBack(index) ==
    LET newCodeArr == state.codeArr
        currentEmptyIndex == findIndex(newCodeArr)
    IN  IF currentEmptyIndex # -1 /\ currentEmptyIndex < index
        THEN [state |-> state, calls |-> <<>>,
              reqs |-> <<FocusReq(index - 1)>>]
        ELSE [state |-> [codeArr |-> clearFrom(newCodeArr, index),
                         currentIndex |-> index],
              calls |-> <<>>, reqs |-> <<>>]

_onFocusKeepCells(index) ==
    LET newCodeArr == state.codeArr
        currentEmptyIndex == findIndex(newCodeArr)
    IN  IF currentEmptyIndex # -1 /\ currentEmptyIndex < index
        THEN [state |-> state, calls |-> <<>>,
              reqs |-> <<FocusReq(currentEmptyIndex)>>]
        ELSE [state |-> [codeArr |-> newCodeArr, currentIndex |-> index],
              calls |-> <<>>, reqs |-> <<>>]

_onFocusNoReturn(index) ==
    LET newCodeArr == state.codeArr
        currentEmptyIndex == findIndex(newCodeArr)
    IN  [state |-> [codeArr |-> clearFrom(newCodeArr, index),
                    currentIndex |-> index],
         calls |-> <<>>,
         reqs |-> IF currentEmptyIndex # -1 /\ currentEmptyIndex < index
                  THEN <<FocusReq(currentEmptyIndex)>>
                  ELSE <<>>]

_onFocus(index) ==
    LET newCodeArr == state.codeArr
        currentEmptyIndex == findIndex(newCodeArr)
    IN  IF currentEmptyIndex # -1 /\ currentEmptyIndex < index
        THEN [state |-> state, calls |-> <<>>,
              reqs |-> <<FocusReq(currentEmptyIndex)>>]
        ELSE [state |-> [codeArr |-> clearFrom(newCodeArr, index),
                         currentIndex |-> index],
              calls |-> <<>>, reqs |-> <<>>]

nextIndexStay(currentIndex) == currentIndex

nextIndexUnclamped(currentIndex) == currentIndex - 1

\* const nextIndex = currentIndex > 0 ? currentIndex - 1 : 0
nextIndexOf(currentIndex) == IF currentIndex > 0 THEN currentIndex - 1 ELSE 0

_onKeyPressStaleCode(key) ==
    IF key = "Backspace"
    THEN LET nextIndex == nextIndexOf(state.currentIndex)
         IN  [state |-> state,
              calls |-> <<CodeChange(join(state.codeArr))>>,
              reqs |-> <<FocusReq(nextIndex)>>]
    ELSE [state |-> state, calls |-> <<>>, reqs |-> <<>>]

_onKeyPress(key) ==
    IF key = "Backspace"
    THEN LET nextIndex == nextIndexOf(state.currentIndex)
             newCodeArr == clearFrom(state.codeArr, nextIndex)
         IN  [state |-> state,
              calls |-> <<CodeChange(join(newCodeArr))>>,
              reqs |-> <<FocusReq(nextIndex)>>]
    ELSE [state |-> state, calls |-> <<>>, reqs |-> <<>>]

isLastCellPastEnd(index) == index = codeLength

\* index === codeLength - 1
isLastCell(index) == index = codeLength - 1

inputUpdateSkip(prevState, newCodeArr) ==
    [codeArr |-> newCodeArr, currentIndex |-> prevState.currentIndex + 2]

\* setState((prevState) => ({...prevState, codeArr: newCodeArr,
\*                           currentIndex: prevState.currentIndex + 1}))
inputUpdate(prevState, newCodeArr) ==
    [codeArr |-> newCodeArr, currentIndex |-> prevState.currentIndex + 1]

onLastCellAlwaysFlag(code) ==
    LET isMatching == _isMatchingCode(code, compareWithCode, ignoreCase)
    IN  [calls |-> <<FulfillMatch(code, isMatching)>>,
         cleared |-> ~isMatching,
         reqs |-> (IF ~isMatching THEN clear.reqs ELSE <<>>)
                  \o <<BlurReq(state.currentIndex)>>]

\* the last-cell branch: the callbacks, whether clear() ran, the requests
onLastCell(code) ==
    IF compareWithCode # <<>>
    THEN LET isMatching == _isMatchingCode(code, compareWithCode, ignoreCase)
         IN  [calls |-> <<FulfillMatch(code, isMatching)>>,
              cleared |-> ~isMatching,
              reqs |-> (IF ~isMatching THEN clear.reqs ELSE <<>>)
                       \o <<BlurReq(state.currentIndex)>>]
    ELSE [calls |-> <<Fulfill(code)>>, cleared |-> FALSE,
          reqs |-> <<BlurReq(state.currentIndex)>>]

_onInputCodeFocusSame(character, index) ==
    LET newCodeArr == [state.codeArr EXCEPT ![index] = character]
        branch == IF isLastCell(index)
                  THEN onLastCell(join(newCodeArr))
                  ELSE [calls |-> <<>>, cleared |-> FALSE,
                        reqs |-> <<FocusReq(state.currentIndex)>>]
        prevState == IF branch.cleared THEN clear.state ELSE state
    IN  [state |-> inputUpdate(prevState, newCodeArr),
         calls |-> branch.calls \o <<CodeChange(join(newCodeArr))>>,
         reqs |-> branch.reqs]

_onInputCodeChangeFirst(character, index) ==
    LET newCodeArr == [state.codeArr EXCEPT ![index] = character]
        branch == IF isLastCell(index)
                  THEN onLastCell(join(newCodeArr))
                  ELSE [calls |-> <<>>, cleared |-> FALSE,
                        reqs |-> <<FocusReq(state.currentIndex + 1)>>]
        prevState == IF branch.cleared THEN clear.state ELSE state
    IN  [state |-> inputUpdate(prevState, newCodeArr),
         calls |-> <<CodeChange(join(newCodeArr))>> \o branch.calls,
         reqs |-> branch.reqs]

\* the updater of clear(), when it ran, is queued before the handler's own
_onInputCode(character, index) ==
    LET newCodeArr == [state.codeArr EXCEPT ![index] = character]
        branch == IF isLastCell(index)
                  THEN onLastCell(join(newCodeArr))
                  ELSE [calls |-> <<>>, cleared |-> FALSE,
                        reqs |-> <<FocusReq(state.currentIndex + 1)>>]
        prevState == IF branch.cleared THEN clear.state ELSE state
    IN  [state |-> inputUpdate(prevState, newCodeArr),
         calls |-> branch.calls \o <<CodeChange(join(newCodeArr))>>,
         reqs |-> branch.reqs]

-----------------------------------------------------------------------------
(* Observers *)

Event(op, index, ch, r) ==
    [op |-> op, index |-> index, ch |-> ch, pre |-> state,
     calls |-> r.calls, reqs |-> r.reqs]

Observe(e) ==
    /\ last' = e
    /\ trace' = IF recording
                THEN Append(trace, [op |-> e.op, index |-> e.index,
                                    ch |-> e.ch, pre |-> e.pre,
                                    calls |-> e.calls])
                ELSE trace

\* a user event is taken once the effect of the mount ran and the host's
\* events are delivered
UserTurn ==
    /\ console.ran
    /\ pending = <<>>
    /\ recording => Len(trace) < MaxEvents

Apply(r) ==
    LET h == Requests(Host, r.reqs)
    IN  /\ state' = r.state
        /\ focused' = h.focused
        /\ pending' = h.pending

-----------------------------------------------------------------------------
(* Actions *)

\* the validation effect, run once the component has mounted
useEffect ==
    /\ ~console.ran
    /\ console' = [ran |-> TRUE, errors |-> validate]
    /\ UNCHANGED <<props, state, focused, pending, last, trace>>

\* the host delivers an onFocus event: onFocus={() => _onFocus(index)};
\* what the handler calls and requests is added to the user event it follows
OnFocus ==
    /\ console.ran
    /\ pending # <<>>
    /\ LET r == _onFocus(Head(pending))
           h == Requests([focused |-> focused, pending |-> Tail(pending)], r.reqs)
       IN  /\ state' = r.state
           /\ focused' = h.focused
           /\ pending' = h.pending
           /\ last' = [last EXCEPT !.calls = last.calls \o r.calls,
                                   !.reqs = last.reqs \o r.reqs]
    /\ UNCHANGED <<props, console, trace>>

\* the user taps a cell that is not focused: the host focuses it
Tap ==
    /\ UserTurn
    /\ \E k \in Cells :
        /\ k # focused
        /\ focused' = k
        /\ pending' = <<k>>
        /\ Observe(Event("tap", k, "", [calls |-> <<>>, reqs |-> <<>>]))
    /\ UNCHANGED <<props, console, state>>

\* the user types a character into the focused cell, which is empty
\* (maxLength={1}): onChangeText={(text) => _onInputCode(text, index)}
InputCode ==
    /\ UserTurn
    /\ focused \in Cells
    /\ state.codeArr[focused] = ""
    /\ \E ch \in keys :
        LET r == _onInputCode(ch, focused)
        IN  /\ Apply(r)
            /\ Observe(Event("input", focused, ch, r))
    /\ UNCHANGED <<props, console>>

\* the user presses backspace in the focused cell: onKeyPress.  The focused
\* cell is empty whenever the user acts (FocusedCellEmpty), so the key deletes
\* no text and no onChangeText follows it
KeyPress ==
    /\ UserTurn
    /\ focused \in Cells
    /\ LET r == _onKeyPress("Backspace")
       IN  /\ Apply(r)
           /\ Observe(Event("backspace", focused, "", r))
    /\ UNCHANGED <<props, console>>

\* the user presses the done key (returnKeyType="done"): the handler ignores
\* the key and the host removes the focus
Submit ==
    /\ UserTurn
    /\ focused \in Cells
    /\ LET r == _onKeyPress("Enter")
       IN  /\ state' = r.state
           /\ focused' = NoFocus
           /\ pending' = pending
           /\ Observe(Event("submit", focused, "", r))
    /\ UNCHANGED <<props, console>>

\* clear() called on its own
Clear ==
    /\ UserTurn
    /\ Apply(clear)
    /\ Observe(Event("clear", -1, "", clear))
    /\ UNCHANGED <<props, console>>

Next ==
    \/ useEffect
    \/ OnFocus
    \/ Tap
    \/ InputCode
    \/ KeyPress
    \/ Submit
    \/ Clear

-----
(* Specifications *)

Targets == UNION {[1 .. n -> Letters] : n \in 0 .. MaxLen}

\* useState({codeArr: new Array(codeLength).fill(""), currentIndex: 0});
\* autoFocus={autoFocus && index === 0}
Mount ==
    /\ state = [codeArr |-> EmptyCodeArr, currentIndex |-> 0]
    /\ \E autoFocus \in BOOLEAN :
        /\ focused = IF autoFocus THEN 0 ELSE NoFocus
        /\ pending = IF autoFocus THEN <<0>> ELSE <<>>
    /\ last = [op |-> "mount", index |-> -1, ch |-> "", pre |-> state,
               calls |-> <<>>, reqs |-> <<>>]
    /\ trace = <<>>
    /\ console = [ran |-> FALSE, errors |-> <<>>]

Init ==
    /\ codeLength \in 1 .. MaxLen
    /\ compareWithCode \in Targets
    /\ ignoreCase \in BOOLEAN
    /\ inputPosition = "center"
    /\ keys = Letters
    /\ recording = FALSE
    /\ Mount

Spec == Init /\ [][Next]_vars

\* the runs whose callbacks are recorded: no comparison target, so that
\* ignoreCase is never read
InitTrace ==
    /\ \/ codeLength \in 1 .. MaxLen /\ keys = Letters
       \/ codeLength = Len(Digits) /\ keys = {Digits[i] : i \in 1 .. Len(Digits)}
    /\ compareWithCode = <<>>
    /\ ignoreCase = FALSE
    /\ inputPosition = "center"
    /\ recording = TRUE
    /\ Mount

SpecTrace == InitTrace /\ [][Next]_vars

\* the targets and the keys of the runs with every kind of configuration
ConfigLetters == {"i", "U+0307"}

ConfigTargets == UNION {[1 .. n -> ConfigLetters] : n \in 0 .. MaxLen}

InitConfig ==
    /\ codeLength \in 1 .. MaxLen
    /\ compareWithCode \in ConfigTargets
    /\ ignoreCase \in BOOLEAN
    /\ inputPosition \in InputPositions \cup {"full"}
    /\ keys = {"i", "U+0130"}
    /\ recording = FALSE
    /\ Mount

SpecConfig == InitConfig /\ [][Next]_vars

-----------------------------------------------------------------------------
(* What the model of the keyboard relies on *)

\* when the user acts, the focused cell is empty
FocusedCellEmpty ==
    (pending = <<>> /\ focused \in Cells) => state.codeArr[focused] = ""

\* the host never has more than one event to deliver
OnePending == Len(pending) <= 1

-----------------------------------------------------------------------------
(* What the claims speak of *)

RECURSIVE Calls(_)
\* the callbacks of a run, in the order they were invoked
Calls(tr) == IF tr = <<>> THEN <<>> ELSE Head(tr).calls \o Calls(Tail(tr))

IsFulfill(c) == c.cb = "onFulfill"

IsCodeChange(c) == c.cb = "onCodeChange"

\* the user events after the tap that focuses cell 0 when autoFocus is off
Typing ==
    IF trace # <<>> /\ trace[1].op = "tap" /\ trace[1].index = 0
    THEN Tail(trace)
    ELSE trace

\* so far the user has only typed, into cells 0, 1, ... in order
TypedInOrder ==
    /\ Len(Typing) <= codeLength
    /\ \A i \in 1 .. Len(Typing) :
        Typing[i].op = "input" /\ Typing[i].index = i - 1

Typed == [i \in 1 .. Len(Typing) |-> Typing[i].ch]

AllFilled == \A i \in Cells : state.codeArr[i] # ""

AllEmpty == \A i \in Cells : state.codeArr[i] = ""

\* the last user event filled the last cell
Completed == last.op = "input" /\ last.index = codeLength - 1

\* the cells as the completing keystroke left them, and the code they spell
Entered == [last.pre.codeArr EXCEPT ![last.index] = last.ch]

EnteredCode == join(Entered)

\* a comparison target of length L, compared with regard to case
ExactTarget == Len(compareWithCode) = codeLength /\ ~ignoreCase

-----------------------------------------------------------------------------
(* C1 *)

\* C1: with no comparison target, typing L characters into cells 0..L-1 in
\* order from the initial state calls onFulfill exactly once, at the L-th
\* character, with the characters typed in order and no match flag.
C1_FulfillOnceInOrder ==
    (compareWithCode = <<>> /\ TypedInOrder) =>
        SelectSeq(Calls(trace), IsFulfill) =
            IF Len(Typing) = codeLength THEN <<Fulfill(Typed)>> ELSE <<>>

C1_Witness ==
    /\ TypedInOrder
    /\ codeLength = 3
    /\ Typed = <<"b", "A", "a">>
    /\ pending = <<>>

-----------------------------------------------------------------------------
(* C2 *)

\* C2: with a target of length L and case regarded, a completed entry that
\* differs from the target calls onFulfill(code, false) and, once the host
\* events of the completion are delivered, all cells are empty, currentIndex
\* is 0 and focus was requested on cell 0.
C2_MismatchResets ==
    (Completed /\ ExactTarget /\ EnteredCode # compareWithCode /\ pending = <<>>) =>
        /\ SelectSeq(last.calls, IsFulfill) = <<FulfillMatch(EnteredCode, FALSE)>>
        /\ AllEmpty
        /\ state.currentIndex = 0
        /\ \E i \in 1 .. Len(last.reqs) : last.reqs[i] = FocusReq(0)

-----------------------------------------------------------------------------
(* C3 *)

\* C3: with a target of length L and case regarded, a completed entry equal
\* to the target calls onFulfill(code, true), every cell keeps the character
\* entered and clear() is not run (no focus request, nothing left to deliver).
C3_MatchKeepsCode ==
    (Completed /\ ExactTarget /\ EnteredCode = compareWithCode) =>
        /\ SelectSeq(last.calls, IsFulfill) = <<FulfillMatch(compareWithCode, TRUE)>>
        /\ state.codeArr = Entered
        /\ AllFilled
        /\ \A i \in 1 .. Len(last.reqs) : last.reqs[i].kind # "focus"
        /\ pending = <<>>

C3_Witness ==
    /\ Completed
    /\ ExactTarget
    /\ compareWithCode = <<"a", "A", "b">>
    /\ EnteredCode = compareWithCode

-----------------------------------------------------------------------------
(* C4 *)

TypedDigits ==
    /\ codeLength = 4
    /\ compareWithCode = <<>>
    /\ TypedInOrder
    /\ Typed = Digits

\* C4 as stated: typing "1","2","3","4" yields onCodeChange("1"), ("12"),
\* ("123"), ("1234") and then onFulfill("1234").
C4_ChangeBeforeFulfill ==
    TypedDigits =>
        Calls(trace) = <<CodeChange(<<"1">>), CodeChange(<<"1", "2">>),
                         CodeChange(<<"1", "2", "3">>),
                         CodeChange(<<"1", "2", "3", "4">>),
                         Fulfill(<<"1", "2", "3", "4">>)>>

\* C4, amended: typing "1","2","3","4" yields onCodeChange("1"), ("12"),
\* ("123"), then onFulfill("1234"), and onCodeChange("1234") after it.
C4_FulfillBeforeChange ==
    TypedDigits =>
        Calls(trace) = <<CodeChange(<<"1">>), CodeChange(<<"1", "2">>),
                         CodeChange(<<"1", "2", "3">>),
                         Fulfill(<<"1", "2", "3", "4">>),
                         CodeChange(<<"1", "2", "3", "4">>)>>

C4_Witness == TypedDigits /\ Len(Calls(trace)) = 5

-----------------------------------------------------------------------------
(* C5 *)

\* C5 as stated: currentIndex is in [0, L-1] in every reachable state.
C5_IndexBelowLength == state.currentIndex \in 0 .. (codeLength - 1)

\* C5, amended: currentIndex is in [0, L]; it is L exactly when every cell
\* is filled and nothing is left to deliver after the last cell was filled
\* (no cell is then focused), and the cell that holds the focus when the
\* user acts is currentIndex, below L.
C5_IndexUpToLength ==
    /\ state.currentIndex \in 0 .. codeLength
    /\ state.currentIndex = codeLength => AllFilled
    /\ (Completed /\ AllFilled /\ pending = <<>>) =>
           (state.currentIndex = codeLength /\ focused = NoFocus)
    /\ (pending = <<>> /\ focused # NoFocus) =>
           (focused = state.currentIndex /\ focused \in Cells)

C5_Witness ==
    /\ codeLength = 3
    /\ state.currentIndex = codeLength
    /\ compareWithCode # <<>>

-----------------------------------------------------------------------------
(* C6 *)

\* the cells below currentIndex are filled, the others are empty
Partition ==
    \A i \in Cells :
        /\ i < state.currentIndex => state.codeArr[i] # ""
        /\ i >= state.currentIndex => state.codeArr[i] = ""

\* C6: except in the state in which all L cells have just been filled, the
\* cells below currentIndex are filled and the cells from currentIndex on
\* are empty, whatever focus, character, backspace and clear events came.
C6_PrefixPartition == ~(Completed /\ AllFilled) => Partition

\* the state a mismatch leaves behind, after a code of three characters
C6_Witness ==
    /\ codeLength = 3
    /\ Completed
    /\ pending = <<>>
    /\ AllEmpty
    /\ ~(Completed /\ AllFilled)

-----------------------------------------------------------------------------
(* C7 *)

Max0(n) == IF n > 0 THEN n ELSE 0

\* C7: a backspace while currentIndex is i in [0, L-1] requests focus on
\* max(i-1, 0) and, once the host's event is delivered, leaves the cells from
\* max(i-1, 0) on empty, the cells below unchanged, and both currentIndex and
\* the host focus on max(i-1, 0); at i = 0 the cells are unchanged.
C7_BackspaceCollapses ==
    (last.op = "backspace" /\ last.pre.currentIndex \in Cells) =>
        LET i == last.pre.currentIndex
            n == Max0(i - 1)
        IN  /\ n \in Cells
            /\ last.reqs[1] = FocusReq(n)
            /\ \A r \in 1 .. Len(last.reqs) : last.reqs[r].index \in Cells
            /\ focused = n
            /\ pending = <<>> =>
                /\ last.reqs = <<FocusReq(n)>>
                /\ state.currentIndex = n
                /\ \A c \in Cells :
                    state.codeArr[c] = IF c >= n THEN "" ELSE last.pre.codeArr[c]
                /\ i = 0 => state.codeArr = last.pre.codeArr

C7_Witness ==
    /\ codeLength = 3
    /\ last.op = "backspace"
    /\ last.pre.currentIndex = 2
    /\ last.pre.codeArr[1] # ""
    /\ pending = <<>>

-----------------------------------------------------------------------------
(* C8 *)

HasEmptyBelow(k) == \E j \in Cells : j < k /\ state.codeArr[j] = ""

FirstEmpty ==
    CHOOSE j \in Cells :
        state.codeArr[j] = "" /\ \A i \in Cells : i < j => state.codeArr[i] # ""

\* C8: a focus event on cell k while a cell below k is empty changes neither
\* the cells nor currentIndex and requests focus on the first empty cell,
\* which the host then focuses.
C8_FocusRedirects ==
    [][(pending # <<>> /\ HasEmptyBelow(Head(pending))) =>
           /\ state' = state
           /\ last'.reqs = Append(last.reqs, FocusReq(FirstEmpty))
           /\ focused' = FirstEmpty
           /\ pending' = Append(Tail(pending), FirstEmpty)]_vars

\* cell 0 is filled, the user tapped cell 2 and was sent to cell 1
C8_Witness ==
    /\ last.op = "tap"
    /\ last.index = 2
    /\ last.reqs = <<FocusReq(1)>>
    /\ state.codeArr[0] # ""
    /\ focused = 1

-----------------------------------------------------------------------------
(* C9 *)

Changes(e) == SelectSeq(e.calls, IsCodeChange)

\* onCodeChange is not invoked by a focus event, a tap, the done key or clear
C9_NoChangeElsewhere ==
    /\ (Tap \/ Submit \/ Clear) => Changes(last') = <<>>
    /\ OnFocus => last'.calls = last.calls

\* C9 as stated: each character entry and each backspace invokes
\* onCodeChange once, with the non-empty cells as they stand after that
\* event; no other event invokes it.
C9_ChangeMatchesCells ==
    [][/\ (InputCode \/ KeyPress) =>
              Changes(last') = <<CodeChange(join(state'.codeArr))>>
       /\ C9_NoChangeElsewhere]_vars

\* C9, amended: each character entry invokes onCodeChange once with the
\* non-empty cells as that handler leaves them; each backspace invokes it
\* once with the cells below max(currentIndex-1, 0), which is what the cells
\* hold only after the focus event the backspace requests is delivered; no
\* other event invokes it.  Once the host's events are delivered the
\* argument is what the cells hold, unless a mismatch has emptied them.
C9_ChangeOncePerEdit ==
    /\ [][/\ InputCode => Changes(last') = <<CodeChange(join(state'.codeArr))>>
          /\ KeyPress =>
                 Changes(last') = <<CodeChange(
                     join([c \in Cells |->
                           IF c >= Max0(state.currentIndex - 1)
                           THEN "" ELSE state.codeArr[c]]))>>
          /\ C9_NoChangeElsewhere]_vars
    /\ []((pending = <<>> /\ last.op \in {"input", "backspace"}
              /\ ~(Completed /\ AllEmpty)) =>
              Changes(last) = <<CodeChange(join(state.codeArr))>>)

\* a backspace at currentIndex 2 took "b" out of "ab": onCodeChange("a")
C9_Witness ==
    /\ last.op = "backspace"
    /\ last.pre.currentIndex = 2
    /\ pending = <<>>
    /\ Changes(last) = <<CodeChange(<<"a">>)>>
    /\ join(last.pre.codeArr) = <<"a", "b">>

-----------------------------------------------------------------------------
(* C10 *)

Fulfills(e) == SelectSeq(e.calls, IsFulfill)

\* C10: onFulfill is invoked once by each keystroke that fills the last cell
\* and by no other event; the code it receives has L characters and a match
\* flag comes with it exactly when a comparison target is configured.
C10_FulfillOnlyOnLastCell ==
    [][/\ (InputCode /\ focused = codeLength - 1) =>
              /\ Len(Fulfills(last')) = 1
              /\ Len(Fulfills(last')[1].args[1]) = codeLength
              /\ Len(Fulfills(last')[1].args) =
                     IF compareWithCode # <<>> THEN 2 ELSE 1
       /\ (InputCode /\ focused # codeLength - 1) => Fulfills(last') = <<>>
       /\ (KeyPress \/ Tap \/ Submit \/ Clear) => Fulfills(last') = <<>>
       /\ OnFocus => last'.calls = last.calls]_vars

\* a code of three characters was completed against a target of two
C10_Witness ==
    /\ codeLength = 3
    /\ Completed
    /\ Len(compareWithCode) = 2
    /\ Len(Fulfills(last)) = 1

-----------------------------------------------------------------------------
(* C11 *)

\* the same letter, in either case
SameLetter(c, d) == c = d \/ {c, d} = {"a", "A"} \/ {c, d} = {"b", "B"}

SameLetters(s, t) ==
    Len(s) = Len(t) /\ \A i \in 1 .. Len(s) : SameLetter(s[i], t[i])

\* a letter in the other case
Flip(c) ==
    IF c = "a" THEN "A" ELSE IF c = "A" THEN "a"
    ELSE IF c = "b" THEN "B" ELSE IF c = "B" THEN "b" ELSE c

Flipped(s) == [i \in 1 .. Len(s) |-> Flip(s[i])]

\* C11: with a target of length L, the flag given to onFulfill is whether
\* code and target are the same up to letter case when ignoreCase is on, and
\* whether they are equal when it is off; entering the target with every
\* letter in the other case gives true with ignoreCase on, false with it off.
C11_MatchFlag ==
    (Completed /\ Len(compareWithCode) = codeLength) =>
        /\ Fulfills(last) =
               <<FulfillMatch(EnteredCode,
                              IF ignoreCase
                              THEN SameLetters(EnteredCode, compareWithCode)
                              ELSE EnteredCode = compareWithCode)>>
        /\ EnteredCode = Flipped(compareWithCode) =>
               Fulfills(last)[1].args[2] = ignoreCase

\* the target "aAa" entered as "AaA" with ignoreCase on
C11_Witness ==
    /\ Completed
    /\ ignoreCase
    /\ compareWithCode = <<"a", "A", "a">>
    /\ EnteredCode = <<"A", "a", "A">>
    /\ Fulfills(last) = <<FulfillMatch(EnteredCode, TRUE)>>

-----------------------------------------------------------------------------
(* C12 *)

\* clear() ran in the last user event: called on its own, or by the
\* keystroke that completed a code the target rejects
ClearRan ==
    \/ last.op = "clear"
    \/ /\ Completed
       /\ compareWithCode # <<>>
       /\ Fulfills(last) = <<FulfillMatch(EnteredCode, FALSE)>>

\* C12: once clear() has run, on its own or in the mismatch path, and the
\* host's events are delivered, the L cells are empty, currentIndex is 0 and
\* focus was requested on cell 0.
C12_ClearResets ==
    (ClearRan /\ pending = <<>>) =>
        /\ AllEmpty
        /\ state.currentIndex = 0
        /\ \E i \in 1 .. Len(last.reqs) : last.reqs[i] = FocusReq(0)

-----------------------------------------------------------------------------
(* C13 *)

\* C13: a focus event on cell k while no cell below k is empty empties the
\* cells from k on, leaves the cells below k unchanged and sets currentIndex
\* to k, also when k is a filled cell of a completed, matching entry.
C13_FocusTruncates ==
    [][(OnFocus /\ ~HasEmptyBelow(Head(pending))) =>
           /\ \A c \in Cells :
               state'.codeArr[c] =
                   IF c >= Head(pending) THEN "" ELSE state.codeArr[c]
           /\ state'.currentIndex = Head(pending)
           /\ pending' = Tail(pending)
           /\ focused' = focused]_vars

\* "aAb" was entered and matched; the user tapped the filled cell 1
C13_Witness ==
    /\ compareWithCode = <<"a", "A", "b">>
    /\ last.op = "tap"
    /\ last.index = 1
    /\ join(last.pre.codeArr) = compareWithCode
    /\ pending = <<>>
    /\ state.currentIndex = 1
    /\ join(state.codeArr) = <<"a">>

-----------------------------------------------------------------------------
(* C14 *)

\* C14: a character entered into a cell that is not the last one is written
\* into that cell, the other cells are unchanged, currentIndex becomes the
\* cell's index + 1 and focus is requested on, and moved to, that next cell.
C14_EntryAdvances ==
    [][(InputCode /\ focused # codeLength - 1) =>
           /\ last'.index = focused
           /\ state'.codeArr = [state.codeArr EXCEPT ![focused] = last'.ch]
           /\ state'.currentIndex = focused + 1
           /\ last'.reqs = <<FocusReq(focused + 1)>>
           /\ focused' = focused + 1
           /\ pending' = <<focused + 1>>]_vars

C14_Witness ==
    /\ codeLength = 3
    /\ last.op = "input"
    /\ last.index = 1
    /\ last.reqs = <<FocusReq(2)>>
    /\ state.currentIndex = 2
    /\ state.codeArr[1] = last.ch

-----------------------------------------------------------------------------
(* C17 *)

\* C17: every focus or blur request issued to the host targets a cell index
\* in 0 .. codeLength - 1: the backspace target is never below 0, the advance
\* target and the blur target are never codeLength or more.
C17_RequestsInRange ==
    /\ \A i \in 1 .. Len(last.reqs) : last.reqs[i].index \in Cells
    /\ last.op = "backspace" =>
           last.reqs = <<FocusReq(Max0(last.pre.currentIndex - 1))>>
    /\ (last.op = "input" /\ last.index # codeLength - 1) =>
           last.reqs[1] = FocusReq(last.pre.currentIndex + 1)

\* backspace in cell 0 asks for the focus on cell 0
C17_Witness ==
    /\ last.op = "backspace"
    /\ last.pre.currentIndex = 0
    /\ last.reqs = <<FocusReq(0)>>

-----------------------------------------------------------------------------
(* C18 *)

\* C18: whenever a character is entered into cell i, the host-focused cell
\* is i and currentIndex is i, so the advance computed from currentIndex + 1
\* is the advance to i + 1.
C18_CursorIsFocus ==
    [][InputCode =>
           /\ focused \in Cells
           /\ last'.index = focused
           /\ state.currentIndex = focused
           /\ state'.currentIndex \in {focused + 1, 1}
           /\ state'.currentIndex = 1 /\ focused # 0 =>
                  /\ focused = codeLength - 1
                  /\ compareWithCode # <<>>]_vars

\* a character entered into cell 0 of a two-cell field with a target
C18_Witness ==
    /\ codeLength = 2
    /\ compareWithCode = <<"a", "b">>
    /\ last.op = "input"
    /\ last.index = 0
    /\ last.pre.currentIndex = 0
    /\ state.currentIndex = 1
    /\ focused = 1

-----------------------------------------------------------------------------
(* C19 *)

\* C19: the delivery of a focus event for cell k either is accepted and
\* leaves no event to deliver, or redirects once to the first empty cell,
\* whose own focus event is then accepted; a tap is followed by at most one
\* redirecting request, and once nothing is left to deliver currentIndex is
\* the host-focused cell.
C19_RedirectSettles ==
    /\ [][OnFocus =>
             IF HasEmptyBelow(Head(pending))
             THEN /\ state' = state
                  /\ focused' = FirstEmpty
                  /\ pending' = <<FirstEmpty>>
                  /\ ~(\E c \in Cells : c < FirstEmpty /\ state'.codeArr[c] = "")
             ELSE /\ pending' = <<>>
                  /\ focused' = Head(pending)
                  /\ state'.currentIndex = Head(pending)]_vars
    /\ [](last.op = "tap" => Len(last.reqs) <= 1)
    /\ []((pending = <<>> /\ focused \in Cells) => state.currentIndex = focused)

\* cell 2 was tapped while cell 0 was the first empty cell: one redirect,
\* and the focus has settled on cell 0
C19_Witness ==
    /\ last.op = "tap"
    /\ last.index = 2
    /\ last.reqs = <<FocusReq(0)>>
    /\ pending = <<>>
    /\ focused = 0
    /\ state.currentIndex = 0

-----------------------------------------------------------------------------
(* C20 *)

\* the event before the last one, and the last one
Before == trace[Len(trace) - 1]

Latest == trace[Len(trace)]

\* C20: a character entered into cell i followed by one backspace, the focus
\* events delivered, leaves codeArr, currentIndex and the focused cell as
\* they were before the character.  After the last cell was filled with no
\* target configured the field is blurred; there the backspace handler asks
\* for the focus on the last cell and the focus handler, run on that cell,
\* yields the state before the character.
C20_RoundTrip ==
    /\ (/\ Len(trace) >= 2
        /\ Before.op = "input"
        /\ Latest.op = "backspace"
        /\ pending = <<>>) =>
           /\ Before.index = Before.pre.currentIndex
           /\ state = Before.pre
           /\ focused = Before.index
    /\ (Completed /\ pending = <<>>) =>
           /\ focused = NoFocus
           /\ _onKeyPress("Backspace").state = state
           /\ _onKeyPress("Backspace").reqs = <<FocusReq(last.index)>>
           /\ Requests(Host, <<FocusReq(last.index)>>) =
                  [focused |-> last.index, pending |-> <<last.index>>]
           /\ _onFocus(last.index).state = last.pre
           /\ _onFocus(last.index).reqs = <<>>

\* "a" in cell 0, then "b" typed into cell 1 and taken back
C20_Witness ==
    /\ codeLength = 3
    /\ Len(trace) >= 2
    /\ Before.op = "input"
    /\ Before.index = 1
    /\ Latest.op = "backspace"
    /\ pending = <<>>
    /\ state.codeArr[0] = "a"
    /\ state.codeArr[1] = ""
    /\ state.currentIndex = 1

-----------------------------------------------------------------------------
(* C15 *)

Logged(message) == \E i \in 1 .. Len(console.errors) : console.errors[i] = message

WrongLength == compareWithCode # <<>> /\ Len(compareWithCode) # codeLength

-----------------------------------------------------------------------------
(* C16 *)

Bordered == ClassNames \ {"clear"}

ActiveCells(className) ==
    {index \in Cells : renderContent(className)[index].borderColor = activeColor}

\* C16: for every bordered className a cell's border colour is activeColor
\* exactly when its index is currentIndex and inactiveColor otherwise, and at
\* most one cell has the active border colour.
C16_ActiveBorder ==
    /\ activeColor # inactiveColor
    /\ \A className \in Bordered :
        /\ \A index \in Cells :
            renderContent(className)[index].borderColor =
                IF index = state.currentIndex
                THEN activeColor ELSE inactiveColor
        /\ Cardinality(ActiveCells(className)) <= 1

\* cell 1 of three is the active one
C16_Witness ==
    /\ codeLength = 3
    /\ state.currentIndex = 1
    /\ state.codeArr[0] # ""
    /\ ActiveCells("border-b-t") = {1}
    /\ renderContent("border-box")[0].borderColor = inactiveColor
    /\ renderContent("border-box")[1].borderColor = activeColor

====
